---- MODULE Spec2Model ----
(***************************************************************************)
(* Static import-closure resolver of q8s (q8s/multifiles.py) and the       *)
(* Workload packager built on it (q8s/workload.py).                        *)
(*                                                                         *)
(* Strings that the code splits on "." or on "/" are kept as the sequence  *)
(* of their components: "pkg.sub" is <<"pkg", "sub">>, the empty string is *)
(* <<"">> (Python: "".split(".") = [""]), ".m" is <<"", "m">>.  An         *)
(* absolute path starts with the component "/".  Python's None is the      *)
(* value None below; formatting it into an f-string gives "None".          *)
(***************************************************************************)
EXTENDS Integers, Sequences, FiniteSets, TLC

\* ------------------------------------------------------------------ strings

None == <<"#None">>
EmptyStr == <<"">>

\* str(x) inside an f-string: None prints as "None".
Str(x) == IF x = None THEN <<"None">> ELSE x

\* Python truthiness of an optional string.
Truthy(x) == x # None /\ x # EmptyStr

\* f"{a}.{b}" on component sequences.
Dot(a, b) == Str(a) \o Str(b)

\* ".".join(parts): joining no parts gives the empty string.
Join(parts) == IF parts = <<>> THEN EmptyStr ELSE parts

\* s.split("."): the representation is the split.
Split(s) == s

\* parts[:n] for an integer n that may be negative or exceed the length.
Take(parts, n) ==
    IF n <= 0 THEN <<>>
    ELSE IF n >= Len(parts) THEN parts
    ELSE SubSeq(parts, 1, n)

\* ------------------------------------------------------------------ paths

INIT_PY == "__init__.py"

\* os.path.join(dir, name)
PathJoin(dir, name) == Append(dir, name)

\* os.path.dirname: the root is its own parent.
Dirname(p) == IF Len(p) <= 1 THEN p ELSE SubSeq(p, 1, Len(p) - 1)

\* os.path.basename: empty for the root.
Basename(p) == IF Len(p) <= 1 THEN "" ELSE p[Len(p)]

\* The process's working directory, the interpreter installation root
\* (GLOBAL = sys.base_prefix) and the environment root (LOCAL = sys.prefix;
\* LOCAL is a reserved word here, hence LOCAL_ROOT).
CWD == <<"/", "proj">>
GLOBAL == <<"/", "usr">>
LOCAL_ROOT == <<"/", "proj", "env">>

\* Directory names some other name starts with, as strings: "env" is a
\* prefix of "envtools.py".
StrPrefixes == {<<"env", "envtools.py">>}
StrStartsWith(s, pre) == s = pre \/ <<pre, s>> \in StrPrefixes

\* str.startswith on paths: a plain string prefix, so the last component of
\* the prefix need only be a string prefix of the component it meets.
StartsWith(p, root) ==
    /\ Len(p) >= Len(root)
    /\ \A i \in 1..(Len(root) - 1) : p[i] = root[i]
    /\ StrStartsWith(p[Len(root)], root[Len(root)])

\* os.path.abspath: a relative path is taken from the working directory.
Abspath(p) == IF Len(p) > 0 /\ p[1] = "/" THEN p ELSE CWD \o p

\* The directories of sys.path that hold the standard library and the
\* environment's installed packages.
STDLIB == <<"/", "usr", "lib">>
SITE == <<"/", "proj", "env", "site">>

\* ------------------------------------------------------------- file system

MAIN == <<"/", "proj", "main.py">>
DEMO == <<"/", "usr", "demo.py">>
ROOTAPP == <<"/", "app.py">>
ROOTINIT == <<"/", "__init__.py">>
HELPER == <<"/", "proj", "helper.py">>
ENVTOOLS == <<"/", "proj", "envtools.py">>
FLAT == <<"/", "proj", "pkg__mod.py">>
PKGINIT == <<"/", "proj", "pkg", "__init__.py">>
MOD == <<"/", "proj", "pkg", "mod.py">>
UTIL == <<"/", "proj", "pkg", "util.py">>
JSON == <<"/", "usr", "lib", "json.py">>
NUMPY == <<"/", "proj", "env", "site", "numpy", "__init__.py">>

Universe ==
    {MAIN, DEMO, ROOTAPP, ROOTINIT, HELPER, ENVTOOLS, FLAT, PKGINIT, MOD, UTIL,
     JSON, NUMPY}

\* Modules compiled into the interpreter: their spec has origin "built-in".
Builtins == {"sys"}
BUILTIN_ORIGIN == <<"built-in">>

\* An import statement, as ast gives it: "import a.b, c" has type "import"
\* and names <<a.b, c>>; "from ..m import x, y" has type "from", module m
\* (None when absent), level 2 and names <<x, y>>.
Imp(names) == [type |-> "import", module |-> None, level |-> 0, names |-> names]
From(module, level, names) ==
    [type |-> "from", module |-> module, level |-> level, names |-> names]

\* What a path holds: kind is "absent", "unreadable" (the file cannot be
\* opened), "syntaxerr" (readable text that does not parse) or "ok"; stmts
\* are the import statements of the text in ast.walk order; runs tells
\* whether importing the file as a module completes without an exception
\* (a property of the whole text: ast.walk also finds imports the
\* interpreter never executes, and a text may raise for any reason).
File(kind, stmts, runs) == [kind |-> kind, stmts |-> stmts, runs |-> runs]
Absent == File("absent", <<>>, FALSE)
Unreadable == File("unreadable", <<>>, FALSE)
SyntaxErr == File("syntaxerr", <<>>, FALSE)
Ok(stmts) == File("ok", stmts, TRUE)
OkRaises(stmts) == File("ok", stmts, FALSE)

VARIABLES
    fs,               \* the file system: Universe -> File
    sys_path,         \* sys.path, a sequence of directories
    entry,            \* the entry script handed to Workload.from_entry_script
    order,            \* worklist discipline: "lifo" is the code's list.pop()
    pc,               \* position in Workload.__init__ / collect_imported_files
    files,            \* collect_imported_files: files
    visited_modules,  \* collect_imported_files: visited_modules
    to_process,       \* collect_imported_files: to_process
    cur_file,         \* the loop's cur_file
    cur_pkg,          \* the loop's cur_pkg
    pending,          \* what the running _iter_imports generator has yet to yield
    popped,           \* history: the files popped so far, in order
    error,            \* the exception that left Workload.__init__, or "none"
    data,             \* Workload.__data
    prev,             \* the files and data of an earlier run on the same tree
    qn,               \* inputs and result of one _qualname call
    mappings,         \* what the property Workload.mappings returns
    it                \* one ast node handed to _iter_imports and what it yields

vars == <<fs, sys_path, entry, order, pc, files, visited_modules, to_process,
          cur_file, cur_pkg, pending, popped, error, data, prev, qn,
          mappings, it>>

\* os.path.isfile / os.path.exists on a file path
IsFile(p) == p \in DOMAIN fs /\ fs[p].kind # "absent"

\* os.path.isdir: a directory exists when some file lies below it.
IsDir(d) ==
    \E p \in DOMAIN fs :
        /\ fs[p].kind # "absent"
        /\ Len(p) > Len(d)
        /\ SubSeq(p, 1, Len(d)) = d

\* ------------------------------------------------------------ _iter_imports

\* One entry the generator yields: (module, level, None); exc marks the
\* point where the generator body raises instead of yielding.
Yield(mod) == [mod |-> mod, level |-> 0, exc |-> FALSE]
Raise == [mod |-> None, level |-> 0, exc |-> TRUE]

\* A loop over the bound names that stops after the first.
YieldEachFirst(prefix, names) ==
    IF names = <<>> THEN <<>> ELSE <<Yield(Dot(prefix, Head(names)))>>

\* A loop over the aliases that stops after the first.
YieldPlainFirst(names) ==
    IF names = <<>> THEN <<>> ELSE <<Yield(Head(names))>>

\* [f(names[i]) : i] for the names of one statement
RECURSIVE YieldEach(_, _)
YieldEach(prefix, names) ==
    IF names = <<>> THEN <<>>
    ELSE <<Yield(Dot(prefix, Head(names)))>> \o YieldEach(prefix, Tail(names))

RECURSIVE YieldPlain(_)
YieldPlain(names) ==
    IF names = <<>> THEN <<>>
    ELSE <<Yield(Head(names))>> \o YieldPlain(Tail(names))

\* cur_pkg.split(".")[: -(level - 1)] joined again, for level > 1
ParentPkg(ctx, level) ==
    Join(Take(Split(ctx), Len(Split(ctx)) - (level - 1)))

\* The entries one ast node yields (lines 43-70).  A level > 1 statement
\* with a module calls cur_pkg.split, which raises when cur_pkg (ctx) is None.
NodeRaises(node, ctx) ==
    /\ node.type = "from"
    /\ node.level > 1
    /\ Truthy(node.module)
    /\ ctx = None

NodeYields(node, ctx) ==
    IF node.type = "import" THEN YieldPlain(node.names)
    ELSE IF node.level = 0
        THEN <<Yield(IF Truthy(node.module) THEN node.module ELSE EmptyStr)>>
    ELSE IF node.level = 1
        THEN IF Truthy(node.module)
             THEN <<Yield(Dot(ctx, node.module))>>
                  \o YieldEach(Dot(ctx, node.module), node.names)
             ELSE YieldEach(ctx, node.names)
    ELSE IF Truthy(node.module) /\ ctx # None
        THEN (IF Len(node.module) > 1
              THEN <<Yield(Dot(ParentPkg(ctx, node.level), node.module))>>
              ELSE <<>>)
             \o YieldEach(Dot(ParentPkg(ctx, node.level), node.module),
                          node.names)
    ELSE <<>>

RECURSIVE WalkNodes(_, _)
WalkNodes(nodes, ctx) ==
    IF nodes = <<>> THEN <<>>
    ELSE IF NodeRaises(Head(nodes), ctx) THEN <<Raise>>
    ELSE NodeYields(Head(nodes), ctx) \o WalkNodes(Tail(nodes), ctx)

\* Everything the generator produces for pyfile: nothing for a file that
\* cannot be read (lines 34-37) or parsed (lines 38-41).
_iter_imports(pyfile, ctx) ==
    IF pyfile \notin DOMAIN fs \/ fs[pyfile].kind # "ok" THEN <<>>
    ELSE WalkNodes(fs[pyfile].stmts, ctx)

\* ---------------------------------------------------------------- _qualname

_qualname(base_pkg, module, level) ==
    IF level = 0 THEN module
    ELSE IF ~Truthy(base_pkg) THEN None
    ELSE LET parts == Split(base_pkg) IN
         IF level > Len(parts) THEN module
         ELSE LET prefix == Join(Take(parts, Len(parts) - level)) IN
              IF Truthy(module) THEN Dot(prefix, module) ELSE prefix

\* -------------------------------------------------------- pkg_name_for_file

\* The loop of lines 94-99 climbs while the directory holds __init__.py.
\* The root directory is its own parent, so a climb that reaches a root
\* holding __init__.py never leaves the loop.
RECURSIVE PkgWalkDiverges(_)
PkgWalkDiverges(cur) ==
    /\ IsFile(PathJoin(cur, INIT_PY))
    /\ (Dirname(cur) = cur \/ PkgWalkDiverges(Dirname(cur)))

\* The package directories above cur, outermost first: the loop appends
\* innermost first and line 100 reverses.
RECURSIVE PkgParts(_)
PkgParts(cur) ==
    IF IsFile(PathJoin(cur, INIT_PY)) /\ Dirname(cur) # cur
    THEN Append(PkgParts(Dirname(cur)), Basename(cur))
    ELSE <<>>

pkg_name_for_file(fpath) ==
    LET parts == PkgParts(Dirname(Abspath(fpath))) IN
    IF parts # <<>> THEN Join(parts) ELSE None

pkg_name_hangs(fpath) == PkgWalkDiverges(Dirname(Abspath(fpath)))

\* ------------------------------------------------------------ _resolve_spec

\* A module spec: name, origin (None for a namespace package) and
\* submodule_search_locations (empty for a plain module).  NoSpec is the
\* None that _resolve_spec returns when nothing is found or importlib raises.
NoSpec == [name |-> None, origin |-> None, locs |-> <<>>]

PyFile(name) == name \o ".py"

\* importlib's path finder over the directories roots[i..]: in one
\* directory a package (directory with __init__.py) wins over a module file,
\* which wins over a bare directory; bare directories only add up to a
\* namespace package when no later directory has a package or module.
RECURSIVE PathFind(_, _, _, _)
PathFind(roots, i, fullname, portions) ==
    IF i > Len(roots)
    THEN IF portions # <<>>
         THEN [name |-> fullname, origin |-> None, locs |-> portions]
         ELSE NoSpec
    ELSE LET tail == fullname[Len(fullname)]
             base == PathJoin(roots[i], tail)
         IN  IF IsFile(PathJoin(base, INIT_PY))
             THEN [name |-> fullname, origin |-> PathJoin(base, INIT_PY),
                   locs |-> <<base>>]
             ELSE IF IsFile(PathJoin(roots[i], PyFile(tail)))
             THEN [name |-> fullname,
                   origin |-> PathJoin(roots[i], PyFile(tail)), locs |-> <<>>]
             ELSE IF IsDir(base)
             THEN PathFind(roots, i + 1, fullname, Append(portions, base))
             ELSE PathFind(roots, i + 1, fullname, portions)

\* find_spec imports the parent of a dotted name first; that import fails
\* when the parent's file cannot be read or compiled, or raises when run.
ParentLoads(spec) ==
    \/ spec.origin = None
    \/ spec.origin = BUILTIN_ORIGIN
    \/ (spec.origin \in DOMAIN fs /\ fs[spec.origin].runs)

\* importlib.util.find_spec(modname) with every exception turned into None
\* (lines 12-15).  A name with an empty component (".m", "") is relative or
\* malformed: importlib raises.
RECURSIVE _resolve_spec(_)
_resolve_spec(modname) ==
    IF modname = None \/ (\E i \in 1..Len(modname) : modname[i] = "")
    THEN NoSpec
    ELSE IF Len(modname) = 1
    THEN IF modname[1] \in Builtins
         THEN [name |-> modname, origin |-> BUILTIN_ORIGIN, locs |-> <<>>]
         ELSE PathFind(sys_path, 1, modname, <<>>)
    ELSE LET parent == _resolve_spec(SubSeq(modname, 1, Len(modname) - 1)) IN
         IF parent = NoSpec \/ ~ParentLoads(parent) \/ parent.locs = <<>>
         THEN NoSpec
         ELSE PathFind(parent.locs, 1, modname, <<>>)

\* ------------------------------------------------------ _spec_origin_files

RECURSIVE InitFiles(_)
InitFiles(locs) ==
    IF locs = <<>> THEN <<>>
    ELSE (IF IsFile(PathJoin(Head(locs), INIT_PY))
          THEN <<PathJoin(Head(locs), INIT_PY)>> ELSE <<>>)
         \o InitFiles(Tail(locs))

\* The paths the generator yields, in order (lines 20-29).
_spec_origin_files(spec) ==
    IF spec = NoSpec THEN <<>>
    ELSE (IF spec.origin # None /\ spec.origin # <<"namespace">>
          THEN <<spec.origin>> ELSE <<>>)
         \o InitFiles(spec.locs)

\* --------------------------------------------------- collect_imported_files

\* A seeding that leaves the entry script out.
SeedFilesEmpty(script) == {}

\* Lines 110-116: the set the walk starts from.
SeedFiles(script) == {Abspath(script)}

\* An exclusion test that forgets the environment root.
ExcludedGlobalOnly(origin) == StartsWith(origin, GLOBAL)

\* Lines 164-170: an origin is taken when it is new and its path has
\* neither GLOBAL nor LOCAL as a string prefix.
Excluded(origin) ==
    StartsWith(origin, GLOBAL) \/ StartsWith(origin, LOCAL_ROOT)

\* A test that takes an origin whether or not it is already a member.
KeepSeenToo(origin, fset) == ~Excluded(origin)

Keep(origin, fset) == origin \notin fset /\ ~Excluded(origin)

\* Lines 175-179: the package context the origin is parsed with.
NewContext(spec, origin) ==
    IF spec.locs # <<>> THEN spec.name ELSE pkg_name_for_file(origin)

\* Lines 143-147: the key a resolved module is remembered by.
VisitKey(spec, target) ==
    <<IF Truthy(spec.name) THEN spec.name ELSE target, spec.origin, spec.locs>>

\* An origin loop that adds to files but never to the worklist.
RECURSIVE AddOriginsNoPush(_, _, _)
AddOriginsNoPush(origins, spec, st) ==
    IF origins = <<>> THEN st
    ELSE LET origin == Abspath(Head(origins)) IN
         IF IsFile(origin) /\ Keep(origin, st.files)
         THEN AddOriginsNoPush(Tail(origins), spec,
                               [st EXCEPT !.files = @ \cup {origin}])
         ELSE AddOriginsNoPush(Tail(origins), spec, st)

\* Lines 152-181, the loop over the origins of one spec.  st holds files
\* and to_process; hang is set when pkg_name_for_file never returns.
\* restrict_roots (lines 119-125, 157-163) stays None: Workload calls
\* collect_imported_files with the entry script alone.
RECURSIVE AddOrigins(_, _, _)
AddOrigins(origins, spec, st) ==
    IF origins = <<>> \/ st.hang THEN st
    ELSE LET origin == Abspath(Head(origins)) IN
         IF ~IsFile(origin) THEN AddOrigins(Tail(origins), spec, st)
         ELSE IF ~Keep(origin, st.files)
         THEN AddOrigins(Tail(origins), spec, st)
         ELSE IF spec.locs = <<>> /\ pkg_name_hangs(origin)
         THEN [st EXCEPT !.files = @ \cup {origin}, !.hang = TRUE]
         ELSE AddOrigins(Tail(origins), spec,
                  [st EXCEPT !.files = @ \cup {origin},
                             !.to_process =
                                 Append(@, <<origin, NewContext(spec, origin)>>)])

\* Lines 133-181, the body of the for loop for one yielded entry.
LoopBody(item, ctx, st) ==
    LET target == _qualname(ctx, item.mod, item.level) IN
    IF ~Truthy(target) THEN st
    ELSE LET spec == _resolve_spec(target) IN
         IF spec = NoSpec THEN st
         ELSE LET key == VisitKey(spec, target) IN
              IF key \in st.visited THEN st
              ELSE AddOrigins(_spec_origin_files(spec), spec,
                              [st EXCEPT !.visited = @ \cup {key}])

\* The worklist disciplines: "lifo" is the code (list.pop() takes the last
\* entry, references in the order the generator yields them); the others
\* take the first entry and/or a file's references last to first.
Orders == {"lifo", "fifo", "lifo_rev", "fifo_rev"}

PopIndex(ord, n) == IF ord \in {"lifo", "lifo_rev"} THEN n ELSE 1

RECURSIVE Reverse(_)
Reverse(seq) ==
    IF seq = <<>> THEN <<>> ELSE Append(Reverse(Tail(seq)), Head(seq))

InOrder(ord, seq) == IF ord \in {"lifo_rev", "fifo_rev"} THEN Reverse(seq) ELSE seq

RemoveAt(seq, i) == SubSeq(seq, 1, i - 1) \o SubSeq(seq, i + 1, Len(seq))

\* Workload.__init__ lines 13-17 calling collect_imported_files, lines
\* 110-128: seed files and the worklist with the entry script.
Seed ==
    /\ pc = "start"
    /\ files' = SeedFiles(entry)
    /\ visited_modules' = {}
    /\ IF pkg_name_hangs(entry)
       THEN /\ pc' = "hang"
            /\ to_process' = <<>>
       ELSE /\ pc' = "loop"
            /\ to_process' = <<<<Abspath(entry), pkg_name_for_file(entry)>>>>
    /\ UNCHANGED <<fs, sys_path, entry, order, cur_file, cur_pkg, pending,
                   popped, error, data, prev, qn,
                   mappings, it>>

\* Lines 130-132: take an entry off the worklist and start _iter_imports
\* on it (the file is read and parsed when the generator starts).
Pop ==
    /\ pc = "loop"
    /\ to_process # <<>>
    /\ LET i == PopIndex(order, Len(to_process)) IN
       /\ cur_file' = to_process[i][1]
       /\ cur_pkg' = to_process[i][2]
       /\ to_process' = RemoveAt(to_process, i)
       /\ pending' = InOrder(order, _iter_imports(to_process[i][1], to_process[i][2]))
       /\ popped' = Append(popped, to_process[i])
    /\ pc' = "for"
    /\ UNCHANGED <<fs, sys_path, entry, order, files, visited_modules, error,
                   data, prev, qn,
                   mappings, it>>

\* Lines 132-181: one turn of the for loop.  The generator either raises
\* (AttributeError from None.split, which nothing catches) or yields an
\* entry that the loop body handles.
NextImport ==
    /\ pc = "for"
    /\ pending # <<>>
    /\ pending' = Tail(pending)
    /\ IF Head(pending).exc
       THEN /\ pc' = "raised"
            /\ error' = "AttributeError"
            /\ UNCHANGED <<files, visited_modules, to_process>>
       ELSE LET st == LoopBody(Head(pending), cur_pkg,
                               [files |-> files, visited |-> visited_modules,
                                to_process |-> to_process, hang |-> FALSE])
            IN  /\ files' = st.files
                /\ visited_modules' = st.visited
                /\ to_process' = st.to_process
                /\ pc' = IF st.hang THEN "hang" ELSE "for"
                /\ error' = error
    /\ UNCHANGED <<fs, sys_path, entry, order, cur_file, cur_pkg, popped, data,
                   prev, qn,
                   mappings, it>>

\* The generator is exhausted: back to the while test of line 130.
EndFor ==
    /\ pc = "for"
    /\ pending = <<>>
    /\ pc' = "loop"
    /\ UNCHANGED <<fs, sys_path, entry, order, files, visited_modules,
                   to_process, cur_file, cur_pkg, pending, popped, error, data,
                   prev, qn,
                   mappings, it>>

\* Line 183: the worklist is empty, the set is returned to Workload.__init__.
Return ==
    /\ pc = "loop"
    /\ to_process = <<>>
    /\ pc' = "collected"
    /\ UNCHANGED <<fs, sys_path, entry, order, files, visited_modules,
                   to_process, cur_file, cur_pkg, pending, popped, error, data,
                   prev, qn,
                   mappings, it>>

\* ----------------------------------------------------------------- Workload

\* Length of the longest common prefix of two paths.
RECURSIVE CommonLen(_, _)
CommonLen(p, q) ==
    IF p = <<>> \/ q = <<>> \/ Head(p) # Head(q) THEN 0
    ELSE 1 + CommonLen(Tail(p), Tail(q))

RECURSIVE Ups(_)
Ups(n) == IF n <= 0 THEN <<>> ELSE <<"..">> \o Ups(n - 1)

\* os.path.relpath(path, start), as path components
Relpath(path, start) ==
    LET c == CommonLen(path, start) IN
    Ups(Len(start) - c) \o SubSeq(path, c + 1, Len(path))

\* "/".join(components).replace("/", "__"), as one string
RECURSIVE JoinWith(_, _)
JoinWith(parts, sep) ==
    IF parts = <<>> THEN ""
    ELSE IF Len(parts) = 1 THEN parts[1]
    ELSE parts[1] \o sep \o JoinWith(Tail(parts), sep)

\* Workload.__base_path (line 15): the entry script's directory
base_path == Dirname(Abspath(entry))

\* Workload.__relative_path (lines 72-76)
relative_path(file) == Relpath(Abspath(file), base_path)

\* Workload.__path_mapping (lines 78-82)
path_mapping(file) == JoinWith(relative_path(file), "__")

\* open(f, "r").read() succeeds on a file that exists and can be opened.
Readable(f) == f \in DOMAIN fs /\ fs[f].kind \in {"ok", "syntaxerr"}

ReadError(f) ==
    IF f \in DOMAIN fs /\ fs[f].kind = "unreadable"
    THEN "PermissionError" ELSE "FileNotFoundError"

\* The dictionaries the comprehension of lines 18-20 can build from fset:
\* when two files have the same key the one iterated last stays, and a
\* set's iteration order is not fixed from run to run.
DataChoices(fset) ==
    LET keys == {path_mapping(f) : f \in fset} IN
    {[k \in keys |-> fs[CHOOSE f \in w : path_mapping(f) = k]] :
        w \in {v \in SUBSET fset :
                  \A k \in keys :
                      Cardinality({f \in v : path_mapping(f) = k}) = 1}}

NoData == [k \in {} |-> Absent]

\* Workload.mappings (lines 65-70) next to the data dictionary d: the
\* property iterates the same unchanged set in the same process, so for
\* each key the file that came last for d comes last again.  Files with
\* one key and equal contents leave either relative path.
MappingChoices(fset, d) ==
    LET keys == {path_mapping(f) : f \in fset} IN
    {[k \in keys |-> relative_path(CHOOSE f \in w : path_mapping(f) = k)] :
        w \in {v \in SUBSET fset :
                  /\ \A k \in keys :
                         Cardinality({f \in v : path_mapping(f) = k}) = 1
                  /\ \A f \in v : fs[f] = d[path_mapping(f)]}}

NoMappings == [k \in {} |-> <<>>]

\* Workload.entry_script (lines 51-56)
entry_script == relative_path(Abspath(entry))

\* Workload.__init__ lines 18-20: read every file of the closure.  A file
\* that cannot be opened raises out of the constructor.
BuildData ==
    /\ pc = "collected"
    /\ IF \A f \in files : Readable(f)
       THEN /\ data' \in DataChoices(files)
            /\ mappings' \in MappingChoices(files, data')
            /\ pc' = "done"
            /\ error' = error
       ELSE /\ \E f \in {g \in files : ~Readable(g)} : error' = ReadError(f)
            /\ pc' = "raised"
            /\ data' = data
            /\ mappings' = mappings
    /\ UNCHANGED <<fs, sys_path, entry, order, files, visited_modules,
                   to_process, cur_file, cur_pkg, pending, popped, prev, qn,
                   it>>

\* A second call of Workload.from_entry_script on the unchanged tree,
\* keeping the first result for comparison.
NoPrev == [valid |-> FALSE, files |-> {}, data |-> NoData]

Rerun ==
    /\ pc = "done"
    /\ ~prev.valid
    /\ prev' = [valid |-> TRUE, files |-> files, data |-> data]
    /\ order' \in Orders
    /\ pc' = "start"
    /\ files' = {}
    /\ visited_modules' = {}
    /\ to_process' = <<>>
    /\ cur_file' = None
    /\ cur_pkg' = None
    /\ pending' = <<>>
    /\ popped' = <<>>
    /\ error' = "none"
    /\ data' = NoData
    /\ mappings' = NoMappings
    /\ UNCHANGED <<fs, sys_path, entry, qn, it>>

\* ------------------------------------------------------------ project trees

MaxStmts == 2

\* Sequences over S of length at most n
SeqsUpTo(S, n) == UNION {[1..k -> S] : k \in 0..n}

\* import helper
ImportHelper == Imp(<< <<"helper">> >>)
\* import pkg.mod, pkg__mod
ImportPkgMod == Imp(<< <<"pkg", "mod">>, <<"pkg__mod">> >>)
\* import json, sys, numpy, envtools
ImportAmbient == Imp(<< <<"json">>, <<"sys">>, <<"numpy">>, <<"envtools">> >>)
\* from . import helper
FromDotImport == From(None, 1, << <<"helper">> >>)
\* from ..pkg import mod
FromUpImport == From(<<"pkg">>, 2, << <<"mod">> >>)
\* import main
ImportMain == Imp(<< <<"main">> >>)
\* from pkg import mod
FromPkgImport == From(<<"pkg">>, 0, << <<"mod">> >>)
\* from . import mod, util
FromDotModUtil == From(None, 1, << <<"mod">>, <<"util">> >>)
\* from .util import f
FromUtilImport == From(<<"util">>, 1, << <<"f">> >>)
\* from ..helper import x
FromUpHelper == From(<<"helper">>, 2, << <<"x">> >>)

EntryPool ==
    {ImportHelper, ImportPkgMod, ImportAmbient, FromDotImport, FromUpImport}

EntryMenu ==
    {Absent, Unreadable, SyntaxErr} \cup {Ok(q) : q \in SeqsUpTo(EntryPool, MaxStmts)}
HelperMenu ==
    {Absent, Unreadable, SyntaxErr, Ok(<<ImportMain>>), Ok(<<FromPkgImport>>),
     Ok(<<FromUpImport>>)}
PkgInitMenu ==
    {Absent, SyntaxErr, Ok(<<FromDotModUtil>>), OkRaises(<<FromDotModUtil>>)}
ModMenu == {Absent, Unreadable, Ok(<<FromUtilImport>>), Ok(<<FromUpHelper>>)}
UtilMenu == {Absent, Ok(<<>>)}
FlatMenu == {Absent, Ok(<<>>)}

\* The interpreter's own files and the installed packages are always there.
BaseFs ==
    [p \in Universe |->
        IF p \in {JSON, NUMPY, ENVTOOLS} THEN Ok(<<>>) ELSE Absent]

WithFiles(base, ps, cs) ==
    [p \in Universe |->
        IF \E i \in 1..Len(ps) : ps[i] = p
        THEN cs[CHOOSE i \in 1..Len(ps) : ps[i] = p]
        ELSE base[p]]

\* A project in the working directory, started from /proj/main.py.
MainTrees ==
    {WithFiles(BaseFs, <<MAIN, HELPER, PKGINIT, MOD, UTIL, FLAT>>,
               <<m, h, i, d, u, f>>) :
        m \in EntryMenu, h \in HelperMenu, i \in PkgInitMenu, d \in ModMenu,
        u \in UtilMenu, f \in FlatMenu}

\* A script that lies below the interpreter installation root.
DemoTrees ==
    {WithFiles(BaseFs, <<DEMO, HELPER, PKGINIT>>, <<m, h, i>>) :
        m \in {Ok(<<ImportHelper>>), Ok(<<ImportAmbient>>),
               Ok(<<ImportHelper, ImportAmbient>>)},
        h \in {Absent, Ok(<<>>), Ok(<<FromPkgImport>>)},
        i \in {Absent, Ok(<<>>)}}

\* A script in the root directory, which may hold an __init__.py.
RootTrees ==
    {WithFiles(BaseFs, <<ROOTAPP, ROOTINIT, HELPER>>, <<Ok(<<ImportHelper>>), r, h>>) :
        r \in {Absent, Ok(<<>>)}, h \in {Absent, Ok(<<>>)}}

ItIdle == [node |-> Imp(<<>>), ctx |-> None, res |-> <<>>, called |-> FALSE]

QnIdle == [base |-> None, module |-> EmptyStr, level |-> 0, res |-> None,
           called |-> FALSE]

InitWalk(e, tree, path) ==
    /\ fs = tree
    /\ entry = e
    /\ sys_path = path
    /\ order = "lifo"
    /\ pc = "start"
    /\ files = {}
    /\ visited_modules = {}
    /\ to_process = <<>>
    /\ cur_file = None
    /\ cur_pkg = None
    /\ pending = <<>>
    /\ popped = <<>>
    /\ error = "none"
    /\ data = NoData
    /\ prev = NoPrev
    /\ qn = QnIdle
    /\ mappings = NoMappings
    /\ it = ItIdle

\* sys.path when the working directory is on it, and when it is not.
PathWithCwd == <<CWD, STDLIB, SITE>>
PathNoCwd == <<STDLIB, SITE>>

Init ==
    \/ \E t \in MainTrees : InitWalk(MAIN, t, PathWithCwd)
    \/ \E t \in DemoTrees : InitWalk(DEMO, t, PathWithCwd)
    \/ \E t \in RootTrees : InitWalk(ROOTAPP, t, PathWithCwd)
    \/ \E t \in DemoTrees : InitWalk(DEMO, t, PathNoCwd)

Next == Seed \/ Pop \/ NextImport \/ EndFor \/ Return \/ BuildData

Spec == Init /\ [][Next]_vars

\* Two runs on one tree, the second under any worklist discipline.
NextTwice == Next \/ Rerun

SpecTwice == Init /\ [][NextTwice]_vars

\* ---------------------------------------------------- _qualname on its own

MaxParts == 3
MaxLevel == 4

QualBases ==
    {None, EmptyStr} \cup UNION {[1..k -> {"pkg", "sub"}] : k \in 1..MaxParts}
QualModules == {EmptyStr, <<"m">>, <<"m", "x">>}

InitQual ==
    /\ fs = BaseFs
    /\ entry = MAIN
    /\ sys_path = PathWithCwd
    /\ order = "lifo"
    /\ pc = "qualname"
    /\ files = {}
    /\ visited_modules = {}
    /\ to_process = <<>>
    /\ cur_file = None
    /\ cur_pkg = None
    /\ pending = <<>>
    /\ popped = <<>>
    /\ error = "none"
    /\ data = NoData
    /\ prev = NoPrev
    /\ mappings = NoMappings
    /\ it = ItIdle
    /\ \E b \in QualBases, m \in QualModules, l \in 0..MaxLevel :
           qn = [base |-> b, module |-> m, level |-> l, res |-> None,
                 called |-> FALSE]

\* One call _qualname(base_pkg, module, level).
CallQualname ==
    /\ pc = "qualname"
    /\ ~qn.called
    /\ qn' = [qn EXCEPT !.res = _qualname(qn.base, qn.module, qn.level),
                        !.called = TRUE]
    /\ UNCHANGED <<fs, sys_path, entry, order, pc, files, visited_modules,
                   to_process, cur_file, cur_pkg, pending, popped, error, data,
                   prev, mappings, it>>

NextQual == CallQualname

SpecQual == InitQual /\ [][NextQual]_vars

\* ------------------------------------------------ _iter_imports on its own

MaxNames == 2

\* Package contexts a file is parsed with: None or a dotted package name.
IterContexts == QualBases \ {EmptyStr}

\* Dotted names an import statement can carry, and the names it can bind.
IterModules == {<<"m">>, <<"m", "n">>}
IterNames == UNION {[1..k -> {<<"a">>, <<"b">>}] : k \in 1..MaxNames}

\* The statements of a one-statement file: "import X, Y",
\* "from X import a, b" and the relative forms, with or without a module.
IterNodes ==
    {Imp(ns) : ns \in UNION {[1..k -> IterModules] : k \in 1..MaxNames}}
    \cup {From(m, l, ns) : m \in IterModules, l \in 0..MaxLevel, ns \in IterNames}
    \cup {From(None, l, ns) : l \in 1..MaxLevel, ns \in IterNames}

InitIter ==
    /\ fs = BaseFs
    /\ entry = MAIN
    /\ sys_path = PathWithCwd
    /\ order = "lifo"
    /\ pc = "iter"
    /\ files = {}
    /\ visited_modules = {}
    /\ to_process = <<>>
    /\ cur_file = None
    /\ cur_pkg = None
    /\ pending = <<>>
    /\ popped = <<>>
    /\ error = "none"
    /\ data = NoData
    /\ prev = NoPrev
    /\ qn = QnIdle
    /\ mappings = NoMappings
    /\ \E n \in IterNodes, c \in IterContexts :
           it = [node |-> n, ctx |-> c, res |-> <<>>, called |-> FALSE]

\* list(_iter_imports(pyfile, cur_pkg)) on a readable file whose text is
\* the one statement: everything yielded, ending with Raise when the
\* generator raises.
CallIterImports ==
    /\ pc = "iter"
    /\ ~it.called
    /\ it' = [it EXCEPT !.res = WalkNodes(<<it.node>>, it.ctx), !.called = TRUE]
    /\ UNCHANGED <<fs, sys_path, entry, order, pc, files, visited_modules,
                   to_process, cur_file, cur_pkg, pending, popped, error, data,
                   prev, qn, mappings>>

NextIter == CallIterImports

SpecIter == InitIter /\ [][NextIter]_vars

\* =================================================================== claims

\* The spec's exclusion test: the path is prefixed by the global runtime
\* installation root or by the local environment root, both used verbatim
\* as path prefixes.
PrefixedByRoot(p) == StartsWith(p, GLOBAL) \/ StartsWith(p, LOCAL_ROOT)

\* The walk has handed its set back to Workload.__init__ (line 183 ran).
WalkReturned ==
    \/ pc \in {"collected", "done"}
    \/ (pc = "raised" /\ error \in {"FileNotFoundError", "PermissionError"})

\* The walk was left by an exception or sits in a loop it never leaves.
WalkAborted == (pc = "raised" /\ error = "AttributeError") \/ pc = "hang"

\* C1: from the seeding step on, in every state of the walk and in the set
\* it returns, the entry file's absolute path is a member of the Closure.
C1_EntryInClosure == pc \notin {"start", "qualname"} => Abspath(entry) \in files

\* The walk has returned a set with the entry file and imported files.
C1_Witness ==
    pc = "collected" /\ Abspath(entry) \in files /\ Cardinality(files) >= 3

\* C2 as stated: no member of the Closure, the entry file included, has a
\* path that starts with GLOBAL or LOCAL.
C2_NoMemberUnderRoots == \A f \in files : ~PrefixedByRoot(f)

\* C2 amended: no member of the Closure other than the entry file has a
\* path that starts with GLOBAL or LOCAL.
C2_NoImportedUnderRoots ==
    \A f \in files \ {Abspath(entry)} : ~PrefixedByRoot(f)

\* The walk returned after resolving a module below GLOBAL and one below
\* LOCAL, and it did add other files.
C2_Witness ==
    /\ pc = "collected"
    /\ \E k \in visited_modules : StartsWith(k[2], GLOBAL)
    /\ \E k \in visited_modules : StartsWith(k[2], LOCAL_ROOT)
    /\ Cardinality(files) >= 2

\* The tree of two files that import each other and nothing else.
CycleTree ==
    /\ entry = MAIN
    /\ fs[MAIN] = Ok(<<ImportHelper>>)
    /\ fs[HELPER] = Ok(<<ImportMain>>)

\* C3: on every tree the worklist loop goes on until it has emptied its
\* worklist and returned (a walk that has not returned can take a step),
\* and on the tree where A and B import each other the returned Closure is
\* exactly {A, B}.
C3_WalkTerminates ==
    pc # "qualname" =>
        /\ WalkReturned \/ ENABLED Next
        /\ CycleTree /\ WalkReturned => files = {MAIN, HELPER}

\* The references the walk extracted from the file it popped i-th, each
\* with the origin files its location yields.
RefOrigins(i) ==
    LET refs == _iter_imports(popped[i][1], popped[i][2]) IN
    UNION {
        LET target == _qualname(popped[i][2], refs[j].mod, refs[j].level)
            origins == IF Truthy(target)
                       THEN _spec_origin_files(_resolve_spec(target))
                       ELSE <<>>
        IN  {Abspath(origins[n]) : n \in 1..Len(origins)}
        : j \in {m \in 1..Len(refs) : ~refs[m].exc}}

FixedPoint ==
    /\ \A f \in files : \E i \in 1..Len(popped) : popped[i][1] = f
    /\ \A i \in 1..Len(popped) :
           \A origin \in RefOrigins(i) :
               IsFile(origin) /\ ~PrefixedByRoot(origin) => origin \in files

C5_FailsBeforeTraversal ==
    ~IsFile(Abspath(entry)) /\ pc # "qualname" =>
        popped = <<>> /\ pc \notin {"collected", "done"}

\* A file the walk popped that cannot be read or does not parse.
PoppedBad(i) == fs[popped[i][1]].kind \in {"unreadable", "syntaxerr"}

\* C6: a file that cannot be read or parsed yields no references, and a
\* walk that has met such a file is not aborted and returns a Closure that
\* holds every file reachable through the other files.
C6_BadFileIsLeaf ==
    \A i \in 1..Len(popped) :
        PoppedBad(i) =>
            /\ _iter_imports(popped[i][1], popped[i][2]) = <<>>
            /\ ~WalkAborted
            /\ (WalkReturned => FixedPoint)

\* C7: when the entry file can be read, no error caused by an unreadable
\* file of the Closure leaves Workload.from_entry_script.
C7_UnreadableNotSurfaced ==
    Readable(Abspath(entry)) /\ pc = "raised" => error # "PermissionError"

\* A yielded entry that stems from a relative import in a file without
\* package context: the raise of a level > 1 import, or a name formatted
\* from None.
FromRelativeImport(item) == item.exc \/ item.mod[1] = "None"

\* C8: in a file with no package context a relative import of any level
\* adds no file to the Closure and raises nothing.
C8_RelativeDropped ==
    [][(/\ pc = "for"
        /\ cur_pkg = None
        /\ pending # <<>>
        /\ FromRelativeImport(Head(pending)))
       => (files' = files /\ pc' = "for")]_vars

\* C9: a second run on the unchanged tree, whatever the order the worklist
\* and the references are processed in, ends with the same Closure and the
\* same content map as the first.
C9_SameResult ==
    prev.valid /\ pc = "done" => files = prev.files /\ data = prev.data

\* The Qualified-Name Resolver as the spec states it.
SpecQualname(base, module, level) ==
    IF level = 0 THEN module
    ELSE IF ~Truthy(base) THEN None
    ELSE IF level > Len(Split(base)) THEN module
    ELSE LET prefix == Take(Split(base), Len(Split(base)) - (level - 1)) IN
         IF ~Truthy(module) THEN Join(prefix)
         ELSE IF prefix = <<>> THEN module
         ELSE prefix \o module

\* C10: _qualname returns what the spec's rule gives, for every base
\* context, referenced name and level.
C10_QualnameRule ==
    qn.called => qn.res = SpecQualname(qn.base, qn.module, qn.level)

\* The names of the entries a call yielded, and whether it raised.
YieldedNames == {it.res[i].mod : i \in 1..Len(it.res)}
NothingRaised == \A i \in 1..Len(it.res) : ~it.res[i].exc /\ it.res[i].level = 0

\* A relative from-import that names a module, in a file whose package
\* context has at least as many components as the statement has dots.
RelativeWithModule ==
    /\ it.node.type = "from"
    /\ it.node.level >= 1
    /\ Truthy(it.node.module)
    /\ it.ctx # None
    /\ Len(it.ctx) >= it.node.level

\* The ancestor package: the context with its trailing level - 1
\* components removed.
Ancestor == SubSeq(it.ctx, 1, Len(it.ctx) - (it.node.level - 1))

\* C11: a relative from-import of module M at level N >= 1, in a context
\* of at least N components, yields exactly A.M and A.M.x for every bound
\* name x, A being the context without its last N - 1 components.
C11_RelativeModuleRule ==
    it.called /\ RelativeWithModule =>
        /\ NothingRaised
        /\ Len(it.res) = 1 + Len(it.node.names)
        /\ YieldedNames =
               {Ancestor \o it.node.module}
               \cup {Ancestor \o it.node.module \o it.node.names[i] :
                        i \in 1..Len(it.node.names)}

\* C12: "from . import a, b" in a file with package context C yields
\* exactly one entry per bound name, C.a and C.b, and nothing else.
C12_DotImportRule ==
    it.called /\ it.node.type = "from" /\ it.node.level = 1
              /\ it.node.module = None /\ it.ctx # None =>
        /\ NothingRaised
        /\ Len(it.res) = Len(it.node.names)
        /\ \A i \in 1..Len(it.res) : it.res[i].mod = it.ctx \o it.node.names[i]

\* "from . import a, b" was parsed in a package of two components.
C12_Witness ==
    /\ it.called
    /\ it.node = From(None, 1, << <<"a">>, <<"b">> >>)
    /\ it.ctx = <<"pkg", "sub">>
    /\ Len(it.res) = 2

\* C13: "import X, Y" yields exactly one level-0 entry per module, and
\* "from X import a, b" yields exactly the one level-0 entry X, whatever
\* names it binds and whatever the package context.
C13_AbsoluteRule ==
    /\ it.called /\ it.node.type = "import" =>
           /\ NothingRaised
           /\ Len(it.res) = Len(it.node.names)
           /\ \A i \in 1..Len(it.res) : it.res[i].mod = it.node.names[i]
    /\ it.called /\ it.node.type = "from" /\ it.node.level = 0 =>
           /\ NothingRaised
           /\ Len(it.res) = 1
           /\ it.res[1].mod = it.node.module

\* "from m.n import a, b" and "import m, m.n" were each parsed.
C13_Witness ==
    /\ it.called
    /\ \/ it.node = From(<<"m", "n">>, 0, << <<"a">>, <<"b">> >>) /\ Len(it.res) = 1
       \/ it.node = Imp(<< <<"m">>, <<"m", "n">> >>) /\ Len(it.res) = 2

\* The next step of the walk hands a name to _resolve_spec.
LookupDue ==
    /\ pc = "for"
    /\ pending # <<>>
    /\ ~Head(pending).exc
    /\ Truthy(_qualname(cur_pkg, Head(pending).mod, Head(pending).level))

\* C14: every module lookup runs with the working directory at the front
\* of the search path and leaves the search path as it found it.
C14_ScopedSearchPath ==
    [][LookupDue => (Head(sys_path) = CWD /\ sys_path' = sys_path)]_vars

\* The path of f relative to the entry file's parent directory, and that
\* path with every separator replaced by a double underscore.
RelativeToEntryDir(f) == Relpath(f, Dirname(Abspath(entry)))
FlattenedName(f) == JoinWith(RelativeToEntryDir(f), "__")

\* C15: in a Workload built from an entry script, every file f of the
\* Closure has its flattened name mapped to its relative path by mappings
\* and to its content by data, and entry_script is the entry file's path
\* relative to its own directory.
C15_MapsEveryFile ==
    pc = "done" =>
        /\ \A f \in files :
               /\ FlattenedName(f) \in DOMAIN mappings
               /\ mappings[FlattenedName(f)] = RelativeToEntryDir(f)
               /\ FlattenedName(f) \in DOMAIN data
               /\ data[FlattenedName(f)] = fs[f]
        /\ entry_script = <<Basename(Abspath(entry))>>

\* Every file the walk has pushed so far: those popped and those waiting.
Pushed == popped \o to_process

\* C16: no file is pushed, and so none is popped and parsed, more than
\* once in one walk, and every pushed file is in the Closure.
C16_VisitedOnce ==
    /\ \A i, j \in 1..Len(Pushed) : i # j => Pushed[i][1] # Pushed[j][1]
    /\ \A i \in 1..Len(Pushed) : Pushed[i][1] \in files

\* The walk returned after it resolved a package whose __init__.py is both
\* the spec's origin and the marker file of its search root, so that
\* _spec_origin_files yielded the file twice, and the file was taken.
C16_Witness ==
    /\ pc = "collected"
    /\ Cardinality(files) >= 3
    /\ \E k \in visited_modules :
           /\ k[3] # <<>>
           /\ k[2] = PathJoin(k[3][1], INIT_PY)
           /\ k[2] \in files

\* C17: every relative path in Workload.mappings lies inside the entry
\* file's parent directory: none has a ".." component.
C17_MappedInsideBase ==
    pc = "done" =>
        \A k \in DOMAIN mappings :
            \A i \in 1..Len(mappings[k]) : mappings[k][i] # ".."

====
